---- MODULE Spec2Model ----
(***************************************************************************)
(* A model of the stepped first-person runner (src/main_pygame.py) and of   *)
(* its persistent player record (src/player_data.py).                       *)
(*                                                                          *)
(* Units.  A position is kept in half tiles: the player always stands on a  *)
(* cell centre x + 0.5, which is the odd number 2x + 1 here.  The heading   *)
(* p_angle is kept as a count of quarter turns (p_angle * pi/2 radians);    *)
(* the code never normalises it and neither does the model.  Time is in     *)
(* milliseconds.                                                            *)
(***************************************************************************)
EXTENDS Integers, Sequences, FiniteSets, TLC

VARIABLES
    world_map,      \* list of rows, each a list of one-character strings
    est_defs,       \* the registry, in file order: <<[key, type, name, menu]>>
    player,         \* the in-memory stats record
    player_file,    \* contents of data/player.json (Absent when there is none)
    px, py,         \* position, half tiles
    p_angle,        \* heading, quarter turns
    in_est,         \* None, or the type of the establishment the player is in
    est_menu_index, \* the menu index handed to the interior renderer
    toasts,         \* texts of the queued notifications, oldest first
    move_forward, move_backward, move_timer,
    running,        \* the main loop's flag
    pc,             \* "loop" while the main loop runs, "done" after pygame.quit(),
                    \* "crashed" after an uncaught exception
    ev,             \* the event the loop handled last, and where it found the player
    pressed,        \* the movement keys the player is holding down
    rays,           \* the ray fan handed to draw_walls
    labels          \* the label blits of the last draw_walls call

vars == <<world_map, est_defs, player, player_file, px, py, p_angle, in_est,
          est_menu_index, toasts, move_forward, move_backward, move_timer, running, pc, ev,
          pressed, rays, labels>>

mapVars   == <<world_map, est_defs>>
poseVars  == <<px, py, p_angle>>
moveVars  == <<move_forward, move_backward, move_timer>>
statVars  == <<player, player_file>>
drawVars  == <<rays, labels>>
MoveKeys  == {"K_w", "K_s"}

(***************************************************************************)
(* Bounds of the model.                                                     *)
(***************************************************************************)
MaxTurns  == 2      \* |p_angle| stays within this many quarter turns
MaxToasts == 1      \* notifications queued at once
MaxGain   == 5      \* how far health and stamina may rise above their defaults
MaxCharm  == 2      \* how far charisma may rise above its default
MaxMods   == 2      \* modify_stat calls in a row, where it is applied on its own
FanSize   == 3      \* rays in a fan, where draw_walls is applied on its own
MaxDepth  == 2      \* corrected depths of a ray, in whole units

None   == "None"

(***************************************************************************)
(* Text.  str.lower() and the substring test `a in b`, character by         *)
(* character.                                                               *)
(***************************************************************************)
UpperCase == "ABCDEFGHIJKLMNOPQRSTUVWXYZ"
LowerCase == "abcdefghijklmnopqrstuvwxyz"

LowerChar(c) ==
    IF \E i \in 1..Len(UpperCase) : SubSeq(UpperCase, i, i) = c
    THEN LET i == CHOOSE j \in 1..Len(UpperCase) : SubSeq(UpperCase, j, j) = c
         IN  SubSeq(LowerCase, i, i)
    ELSE c

UpperChar(c) ==
    IF \E i \in 1..Len(LowerCase) : SubSeq(LowerCase, i, i) = c
    THEN LET i == CHOOSE j \in 1..Len(LowerCase) : SubSeq(LowerCase, j, j) = c
         IN  SubSeq(UpperCase, i, i)
    ELSE c

RECURSIVE upper(_)
upper(s) ==
    IF Len(s) = 0 THEN ""
    ELSE UpperChar(SubSeq(s, 1, 1)) \o upper(SubSeq(s, 2, Len(s)))

RECURSIVE lower(_)
lower(s) ==
    IF Len(s) = 0 THEN ""
    ELSE LowerChar(SubSeq(s, 1, 1)) \o lower(SubSeq(s, 2, Len(s)))

\* Python's `sub in s` on strings
Contains(s, sub) ==
    \E i \in 1..(Len(s) - Len(sub) + 1) : SubSeq(s, i, i + Len(sub) - 1) = sub

(***************************************************************************)
(* The registry (data/establishments.json), kept in file order because      *)
(* menus are found by a linear scan for the type.                           *)
(***************************************************************************)
HasKey(defs, key) == \E i \in 1..Len(defs) : defs[i].key = key

EstOf(defs, key) == defs[CHOOSE i \in 1..Len(defs) : defs[i].key = key]

\* for k,v in est_defs.items(): if v.get("type") == est_type: menu = v.get("menu", [])
MenuOf(defs, est_type) ==
    IF \E i \in 1..Len(defs) : defs[i].type = est_type
    THEN LET i == CHOOSE j \in 1..Len(defs) :
                     /\ defs[j].type = est_type
                     /\ \A k \in 1..(j - 1) : defs[k].type # est_type
         IN  defs[i].menu
    ELSE <<>>

FullRegistry ==
    << [key |-> "t", type |-> "tavern", name |-> "The Rusty Mug",
        menu |-> <<"Drink Ale", "Eat Stew", "Sing a Song", "Buy a Round">>],
       [key |-> "s", type |-> "shop", name |-> "General Store",
        menu |-> <<"Browse Wares", "Exit">>] >>

\* the registry of the tavern scenario: two priced actions
ScenarioRegistry ==
    << [key |-> "t", type |-> "tavern", name |-> "The Rusty Mug",
        menu |-> <<"Drink Ale", "Eat Stew">>],
       [key |-> "s", type |-> "shop", name |-> "General Store",
        menu |-> <<"Browse Wares", "Exit">>] >>

(***************************************************************************)
(* The grid map (data/map.txt).                                             *)
(***************************************************************************)
\* list(line.rstrip("\n"))
Chars(line) == [i \in 1..Len(line) |-> SubSeq(line, i, i)]

LoadMap(text) == [y \in 1..Len(text) |-> Chars(text[y])]

MAP_H_of(wm) == Len(wm)
MAP_W_of(wm) == IF Len(wm) > 0 THEN Len(wm[1]) ELSE 0

MAP_H == MAP_H_of(world_map)
MAP_W == MAP_W_of(world_map)

\* world_map[y][x], with the code's indices from 0
Cell(wm, x, y) == wm[y + 1][x + 1]

\* the cells holding the start marker, as <<x, y>>
Markers(wm) ==
    {c \in (0..(MAP_W_of(wm) - 1)) \X (0..(MAP_H_of(wm) - 1)) :
        c[1] < Len(wm[c[2] + 1]) /\ Cell(wm, c[1], c[2]) = "@"}

\* the first marker in row-major order: the scan breaks out at the first hit
FirstMarker(wm) ==
    CHOOSE c \in Markers(wm) :
        \A d \in Markers(wm) : c[2] < d[2] \/ (c[2] = d[2] /\ c[1] <= d[1])

\* the start position in half tiles: the marker's cell centre, else the
\* centre of the cell in the middle of the map
StartOf(wm) ==
    IF Markers(wm) # {}
    THEN <<2 * FirstMarker(wm)[1] + 1, 2 * FirstMarker(wm)[2] + 1>>
    ELSE <<2 * (MAP_W_of(wm) \div 2) + 1, 2 * (MAP_H_of(wm) \div 2) + 1>>

\* world_map[y][x] = "."  (clear marker)
ClearMarker(wm) ==
    IF Markers(wm) # {}
    THEN LET c == FirstMarker(wm)
         IN  [wm EXCEPT ![c[2] + 1][c[1] + 1] = "."]
    ELSE wm

\* the map texts the model starts from: each base map with the start marker
\* on any one of its open cells, and without a marker
MapA == <<".tT.",
          "....",
          "#xs.">>
MapB == <<"#...t..#">>

BaseMaps == {MapA, MapB}

PutMarker(text, x, y) ==
    [text EXCEPT ![y + 1] =
        SubSeq(text[y + 1], 1, x) \o "@" \o SubSeq(text[y + 1], x + 2, Len(text[y + 1]))]

OpenCells(text) ==
    {c \in (0..(Len(text[1]) - 1)) \X (0..(Len(text) - 1)) :
        SubSeq(text[c[2] + 1], c[1] + 1, c[1] + 1) = "."}

MapTexts ==
    UNION {{PutMarker(b, c[1], c[2]) : c \in OpenCells(b)} : b \in BaseMaps}
    \cup {t \in BaseMaps : Cell(LoadMap(t), Len(t[1]) \div 2, Len(t) \div 2) = "."}

(***************************************************************************)
(* player_data.py: the stats record and its file.                           *)
(***************************************************************************)
StatKeys == <<"health", "stamina", "charisma", "gold">>
KeySet   == {StatKeys[i] : i \in 1..Len(StatKeys)}

DEFAULT_STATS ==
    [k \in KeySet |-> CASE k = "health"   -> 100
                        [] k = "stamina"  -> 100
                        [] k = "charisma" -> 10
                        [] k = "gold"     -> 50]

Digits == "0123456789"

\* the decimal text json.dump writes for an integer
RECURSIVE IntToText(_)
IntToText(n) ==
    IF n < 0 THEN "-" \o IntToText(-n)
    ELSE IF n < 10 THEN SubSeq(Digits, n + 1, n + 1)
    ELSE IntToText(n \div 10) \o SubSeq(Digits, (n % 10) + 1, (n % 10) + 1)

IsDigit(c) == \E d \in 1..10 : SubSeq(Digits, d, d) = c
DigitVal(c) == (CHOOSE d \in 1..10 : SubSeq(Digits, d, d) = c) - 1

RECURSIVE NatOfText(_)
NatOfText(t) ==
    IF Len(t) = 0 THEN 0
    ELSE 10 * NatOfText(SubSeq(t, 1, Len(t) - 1)) + DigitVal(SubSeq(t, Len(t), Len(t)))

IsNatText(t) == Len(t) > 0 /\ \A i \in 1..Len(t) : IsDigit(SubSeq(t, i, i))

IsIntText(t) ==
    \/ IsNatText(t)
    \/ Len(t) > 1 /\ SubSeq(t, 1, 1) = "-" /\ IsNatText(SubSeq(t, 2, Len(t)))

\* the integer json.load reads back from a decimal text
IntOfText(t) ==
    IF SubSeq(t, 1, 1) = "-" THEN 0 - NatOfText(SubSeq(t, 2, Len(t))) ELSE NatOfText(t)

\* data/player.json: whether it exists, and its members as <<key, number text>>
Absent  == [exists |-> FALSE, members |-> <<>>]
\* a file that json.load rejects
Corrupt == [exists |-> TRUE, members |-> << <<"health", "1e">> >>]

\* json.dump(stats, f): the file becomes the list of "key": number members
save_player(stats) ==
    [exists  |-> TRUE,
     members |-> [i \in 1..Len(StatKeys) |->
                    <<StatKeys[i], IntToText(stats[StatKeys[i]])>>]]

Parses(file) ==
    /\ file.exists
    /\ Len(file.members) = Len(StatKeys)
    /\ \A i \in 1..Len(file.members) :
          /\ file.members[i][1] = StatKeys[i]
          /\ IsIntText(file.members[i][2])

\* load_player(): the file's record, or the defaults when the file is
\* missing or unreadable
load_player(file) ==
    IF Parses(file)
    THEN [k \in KeySet |->
            IntOfText(file.members[CHOOSE i \in 1..Len(file.members) :
                                        file.members[i][1] = k][2])]
    ELSE DEFAULT_STATS

Max(a, b) == IF a >= b THEN a ELSE b

\* mutant: the sum is stored without the floor at zero
modify_stat_unclamped(stats, key, delta) ==
    [stats EXCEPT ![key] = stats[key] + delta]

\* stats[key] = max(0, stats.get(key, 0) + delta)
modify_stat(stats, key, delta) ==
    [stats EXCEPT ![key] = Max(0, stats[key] + delta)]

(***************************************************************************)
(* Establishments.                                                          *)
(***************************************************************************)
\* mutant: the lookup forgets to lower the tile's letter
enter_est_from_char_cased(ch) ==
    IF HasKey(est_defs, ch) THEN EstOf(est_defs, ch).type ELSE None

\* key = ch.lower(); est_defs[key].get("type") if key in est_defs else None
enter_est_from_char(ch) ==
    IF HasKey(est_defs, lower(ch)) THEN EstOf(est_defs, lower(ch)).type ELSE None

\* Python truthiness of a type or a toast text
Truthy(v) == v # None /\ v # ""

\* the result of an action that changed nothing but may say something
Unchanged(text) == [player |-> player, file |-> player_file, toast |-> text]

\* the result of an action that changed the stats to p: save_player(player)
Saved(p, text) == [player |-> p, file |-> save_player(p), toast |-> text]

\* mutant: the drink is served without looking at the gold
DrinkAction_unpaid ==
    Saved(modify_stat(modify_stat(player, "stamina", 5), "gold", -1),
          "You drink and feel refreshed.")

\* if "drink" in action
DrinkAction ==
    IF player["gold"] >= 1
    THEN Saved(modify_stat(modify_stat(player, "stamina", 5), "gold", -1),
               "You drink and feel refreshed.")
    ELSE Unchanged("Not enough gold to drink.")

\* if "eat" in action
EatAction ==
    IF player["gold"] >= 2
    THEN Saved(modify_stat(modify_stat(player, "health", 5), "gold", -2),
               "You eat a satisfying meal.")
    ELSE Unchanged("Not enough gold to eat.")

\* mutant: the song is not saved
SingAction_unsaved ==
    [player |-> modify_stat(player, "charisma", 1), file |-> player_file,
     toast |-> "Your song raises your spirits."]

\* if "sing" in action
SingAction ==
    Saved(modify_stat(player, "charisma", 1), "Your song raises your spirits.")

\* if "buy" in action and "round" in action
RoundAction ==
    IF player["gold"] >= 5
    THEN Saved(modify_stat(modify_stat(player, "gold", -5), "charisma", 2),
               "You buy a round - cheers!")
    ELSE Unchanged("Not enough gold for a round.")

\* the effects of a menu entry, picked by the words in its lowered text
ActionOf(entry) ==
    LET action == lower(entry)
    IN  IF Contains(action, "drink") THEN DrinkAction
        ELSE IF Contains(action, "eat") THEN EatAction
        ELSE IF Contains(action, "sing") THEN SingAction
        ELSE IF Contains(action, "buy") /\ Contains(action, "round") THEN RoundAction
        ELSE Unchanged("You chose: " \o entry)

\* mutant: an index past the menu picks the last entry
apply_est_action_wrapped(est_type, idx) ==
    LET menu == MenuOf(est_defs, est_type)
    IN  IF Len(menu) = 0 \/ idx < 0
        THEN Unchanged(None)
        ELSE ActionOf(menu[IF idx >= Len(menu) THEN Len(menu) ELSE idx + 1])

\* The action of menu entry idx: the stats, the file and the toast text after
\* it, None when the index is outside the menu
apply_est_action(est_type, idx) ==
    LET menu == MenuOf(est_defs, est_type)
    IN  IF Len(menu) = 0 \/ idx < 0 \/ idx >= Len(menu)
        THEN Unchanged(None)
        ELSE ActionOf(menu[idx + 1])

(***************************************************************************)
(* interior_mode.py: what the interior screen shows.                        *)
(***************************************************************************)
\* [m for m in menu if "exit" not in m.lower() and "esc" not in m.lower()]
RECURSIVE Shown(_)
Shown(menu) ==
    IF Len(menu) = 0 THEN <<>>
    ELSE LET m == menu[1]
         IN  IF ~Contains(lower(m), "exit") /\ ~Contains(lower(m), "esc")
             THEN <<m>> \o Shown(Tail(menu))
             ELSE Shown(Tail(menu))

\* draw_interior(screen, est_type, menu_idx, ...): the numbered items in the
\* menu box, item i+1 at position i+1, and the position drawn in the
\* highlight colour (0 when no item is)
draw_interior(est_type, menu_idx) ==
    LET found == MenuOf(est_defs, est_type)
        menu  == Shown(IF Len(found) = 0 THEN <<"(No actions available)">> ELSE found)
    IN  [items     |-> menu,
         highlight |-> IF 0 <= menu_idx /\ menu_idx < Len(menu) THEN menu_idx + 1 ELSE 0]

(***************************************************************************)
(* Stepped movement.                                                        *)
(***************************************************************************)
STEP_SIZE == 1

\* math.cos and math.sin of a heading of a quarter turns.  The floating
\* results differ from these by less than 1e-15, which int() below absorbs.
Cos(a) == CASE a % 4 = 0 -> 1  [] a % 4 = 1 -> 0 [] a % 4 = 2 -> -1 [] OTHER -> 0
Sin(a) == CASE a % 4 = 0 -> 0  [] a % 4 = 1 -> 1 [] a % 4 = 2 -> 0  [] OTHER -> -1

\* int(h/2 + 1e-9) for h half tiles: Python's int() truncates toward zero,
\* so -0.5 + 1e-9 becomes 0
IntOf(h) == IF h >= 0 THEN h \div 2 ELSE 0 - ((0 - h - 1) \div 2)

\* world_map[ny][nx] raises IndexError: the row is shorter than MAP_W
PastEnd(nx, ny) == nx >= Len(world_map[ny + 1])

\* mutant: the step is committed into any cell that is not a solid wall
step_forward_not_wall ==
    LET nx == IntOf(px + 2 * Cos(p_angle) * STEP_SIZE)
        ny == IntOf(py + 2 * Sin(p_angle) * STEP_SIZE)
        stay == [px |-> px, py |-> py, ret |-> None, raised |-> FALSE]
    IN  IF 0 <= nx /\ nx < MAP_W /\ 0 <= ny /\ ny < MAP_H
        THEN IF PastEnd(nx, ny)
             THEN [stay EXCEPT !.raised = TRUE]
             ELSE IF Cell(world_map, nx, ny) # "#"
                  THEN [stay EXCEPT !.px = 2 * nx + 1, !.py = 2 * ny + 1]
                  ELSE stay
        ELSE stay

\* The position after a forward step and the establishment type it returns;
\* raised when the step ends in an IndexError
step_forward ==
    LET nx == IntOf(px + 2 * Cos(p_angle) * STEP_SIZE)
        ny == IntOf(py + 2 * Sin(p_angle) * STEP_SIZE)
        stay == [px |-> px, py |-> py, ret |-> None, raised |-> FALSE]
    IN  IF 0 <= nx /\ nx < MAP_W /\ 0 <= ny /\ ny < MAP_H
        THEN IF PastEnd(nx, ny)
             THEN [stay EXCEPT !.raised = TRUE]
             ELSE LET ch == Cell(world_map, nx, ny)
                  IN  IF ch = "."
                      THEN [stay EXCEPT !.px = 2 * nx + 1, !.py = 2 * ny + 1]
                      ELSE IF HasKey(est_defs, lower(ch))
                           THEN IF Truthy(enter_est_from_char(ch))
                                THEN [stay EXCEPT !.ret = enter_est_from_char(ch)]
                                ELSE stay
                           ELSE stay
        ELSE stay

\* mutant: the step is committed without looking at the cell
step_backward_unchecked ==
    LET nx == IntOf(px - 2 * Cos(p_angle) * STEP_SIZE)
        ny == IntOf(py - 2 * Sin(p_angle) * STEP_SIZE)
        stay == [px |-> px, py |-> py, raised |-> FALSE]
    IN  IF 0 <= nx /\ nx < MAP_W /\ 0 <= ny /\ ny < MAP_H
        THEN [stay EXCEPT !.px = 2 * nx + 1, !.py = 2 * ny + 1]
        ELSE stay

\* The position after a backward step; nothing is returned
step_backward ==
    LET nx == IntOf(px - 2 * Cos(p_angle) * STEP_SIZE)
        ny == IntOf(py - 2 * Sin(p_angle) * STEP_SIZE)
        stay == [px |-> px, py |-> py, raised |-> FALSE]
    IN  IF 0 <= nx /\ nx < MAP_W /\ 0 <= ny /\ ny < MAP_H
        THEN IF PastEnd(nx, ny)
             THEN [stay EXCEPT !.raised = TRUE]
             ELSE IF Cell(world_map, nx, ny) = "."
                  THEN [stay EXCEPT !.px = 2 * nx + 1, !.py = 2 * ny + 1]
                  ELSE stay
        ELSE stay

(***************************************************************************)
(* Raycasting.  A point of a ray is kept in units of 1/200000 tile: a march *)
(* step of 0.05 tile is 10000 units along the ray.  Of the NUM_RAYS rays of *)
(* the fan the model casts those listed in RayIdx: the two edges of the     *)
(* fan and ray 80, which runs along the heading.                            *)
(***************************************************************************)
NUM_RAYS  == 160
MAX_DEPTH == 40
RayIdx    == <<0, NUM_RAYS \div 2, NUM_RAYS - 1>>

\* `while depth < MAX_DEPTH: depth += 0.05`: the float sum of 800 terms is
\* 39.99999999999986, still below 40.0, so the loop body runs 801 times and
\* leaves depth at 40.05
MarchSteps == 20 * MAX_DEPTH + 1

\* 10000 * cos and 10000 * sin of ray r's angle from the heading,
\* -HALF_FOV + r * DELTA_ANGLE: -45, 0 and 44.4375 degrees
OffCos(r) == CASE r = 0 -> 7071 [] r = NUM_RAYS \div 2 -> 10000 [] r = NUM_RAYS - 1 -> 7140
OffSin(r) == CASE r = 0 -> -7071 [] r = NUM_RAYS \div 2 -> 0 [] r = NUM_RAYS - 1 -> 7001

\* 10000 * cos(ray_ang) and 10000 * sin(ray_ang) for ray r at a heading of a
\* quarter turns
RayCos(a, r) == OffCos(r) * Cos(a) - OffSin(r) * Sin(a)
RaySin(a, r) == OffSin(r) * Cos(a) + OffCos(r) * Sin(a)

\* 10000 * cos(pa - ray_ang), the fish-eye correction
RayCorr(r) == OffCos(r)

\* int(c) for a coordinate of u units: truncation toward zero
IntOfUnits(u) == IF u >= 0 THEN u \div 200000 ELSE 0 - ((0 - u) \div 200000)

\* One pass of the while loop, the k-th: the sample point's cell and what
\* the pass does there.  "on" when the cell is "." and the loop goes on;
\* raised when world_map[iy][ix] indexes past the end of a row (IndexError)
Pass(wm, x0, y0, dx, dy, k) ==
    LET ix == IntOfUnits(x0 + k * dx)
        iy == IntOfUnits(y0 + k * dy)
    IN  IF ix < 0 \/ iy < 0 \/ ix >= MAP_W_of(wm) \/ iy >= MAP_H_of(wm)
        THEN [ch |-> "#", steps |-> k, raised |-> FALSE]
        ELSE IF ix >= Len(wm[iy + 1])
        THEN [ch |-> None, steps |-> k, raised |-> TRUE]
        ELSE IF Cell(wm, ix, iy) # "."
        THEN [ch |-> Cell(wm, ix, iy), steps |-> k, raised |-> FALSE]
        ELSE [ch |-> "on", steps |-> k, raised |-> FALSE]

\* the first pass among lo..hi that leaves the loop, 0 when none does
RECURSIVE FirstBreak(_, _, _, _, _, _, _)
FirstBreak(wm, x0, y0, dx, dy, lo, hi) ==
    IF lo = hi
    THEN IF Pass(wm, x0, y0, dx, dy, lo).ch # "on" THEN lo ELSE 0
    ELSE LET mid  == (lo + hi) \div 2
             left == FirstBreak(wm, x0, y0, dx, dy, lo, mid)
         IN  IF left # 0 THEN left ELSE FirstBreak(wm, x0, y0, dx, dy, mid + 1, hi)

\* mutant: a ray that runs out of depth is recorded as a hit on a solid wall
March_far_wall(wm, x0, y0, dx, dy) ==
    LET k == FirstBreak(wm, x0, y0, dx, dy, 1, MarchSteps)
    IN  IF k = 0
        THEN [ch |-> "#", steps |-> MarchSteps, raised |-> FALSE]
        ELSE Pass(wm, x0, y0, dx, dy, k)

\* The while loop of one ray: the hit character and the number of passes
\* made.  A ray that runs out of depth leaves hit_ch at None, which becomes
\* "."
March(wm, x0, y0, dx, dy) ==
    LET k == FirstBreak(wm, x0, y0, dx, dy, 1, MarchSteps)
    IN  IF k = 0
        THEN [ch |-> ".", steps |-> MarchSteps, raised |-> FALSE]
        ELSE Pass(wm, x0, y0, dx, dy, k)

\* the sample of ray r: its hit character and its corrected depth, in units
cast_ray(wm, x, y, a, r) ==
    LET m == March(wm, 100000 * x, 100000 * y, RayCos(a, r), RaySin(a, r))
    IN  [ch |-> m.ch, depth |-> m.steps * RayCorr(r), ray |-> r, raised |-> m.raised]

\* cast_rays(px, py, pa) for a position in half tiles: the samples in ray
\* order
cast_rays(wm, x, y, a) == [i \in 1..Len(RayIdx) |-> cast_ray(wm, x, y, a, RayIdx[i])]

\* an IndexError left cast_rays
Raised(fan) == \E i \in 1..Len(fan) : fan[i].raised

\* get_texture_for(ch): the texture of a wall column, by upper-cased letter
get_texture_for(ch) ==
    LET c == upper(ch)
    IN  IF c = "#" THEN "tex_wall_stone"
        ELSE IF c = "W" \/ c = "T" THEN "tex_wall_wood"
        ELSE IF c = "S" \/ c = "B" \/ c = "G" \/ c = "H" THEN "tex_wall_shop"
        ELSE IF c = "D" THEN "tex_door"
        ELSE "tex_wall_stone"

(***************************************************************************)
(* The main loop.  An event handler or the rest of a frame is one step; it  *)
(* is written as the record of the globals it leaves behind.                *)
(***************************************************************************)
move_cooldown == 200

Keys      == {"K_w", "K_s", "K_a", "K_d", "K_ESCAPE", "K_1", "K_2", "K_3", "K_4"}
DigitKeys == {"K_1", "K_2", "K_3", "K_4"}
IdxOf(key) == CASE key = "K_1" -> 0 [] key = "K_2" -> 1 [] key = "K_3" -> 2 [] key = "K_4" -> 3

\* frame times clock.tick(60) may return, in milliseconds
DtSet == {100, 250}

\* the globals, whether an exception is on its way out of the loop, and
\* which of the step functions has been called
Globals ==
    [player |-> player, player_file |-> player_file, px |-> px, py |-> py,
     p_angle |-> p_angle, in_est |-> in_est, est_menu_index |-> est_menu_index,
     toasts |-> toasts,
     move_forward |-> move_forward, move_backward |-> move_backward,
     move_timer |-> move_timer, running |-> running, raised |-> FALSE,
     stepped |-> "none"]

Becomes(g) ==
    /\ player' = g.player
    /\ player_file' = g.player_file
    /\ px' = g.px
    /\ py' = g.py
    /\ p_angle' = g.p_angle
    /\ in_est' = g.in_est
    /\ est_menu_index' = g.est_menu_index
    /\ toasts' = g.toasts
    /\ move_forward' = g.move_forward
    /\ move_backward' = g.move_backward
    /\ move_timer' = g.move_timer
    /\ running' = g.running

\* what keeps the model finite: the stats, the queue and the heading stay
\* within the bounds
WithinBounds(g) ==
    /\ g.player["health"] <= DEFAULT_STATS["health"] + MaxGain
    /\ g.player["stamina"] <= DEFAULT_STATS["stamina"] + MaxGain
    /\ g.player["charisma"] <= DEFAULT_STATS["charisma"] + MaxCharm
    /\ Len(g.toasts) <= MaxToasts
    /\ g.p_angle >= 0 - MaxTurns
    /\ g.p_angle <= MaxTurns

\* toasts.append({"text": text, ...})
add_toast(q, text) == Append(q, text)

\* mutant: the cancel key ends the program in an interior too
OnKeyDownInterior_quits(key) ==
    IF key = "K_ESCAPE"
    THEN [Globals EXCEPT !.in_est = None,
                         !.player_file = save_player(player),
                         !.running = FALSE]
    ELSE IF key \in DigitKeys
    THEN LET r == apply_est_action(in_est, IdxOf(key))
         IN  [Globals EXCEPT !.player = r.player,
                             !.player_file = r.file,
                             !.toasts = IF Truthy(r.toast)
                                        THEN add_toast(toasts, r.toast)
                                        ELSE toasts]
    ELSE Globals

\* KEYDOWN, if in_est
OnKeyDownInterior(key) ==
    IF key = "K_ESCAPE"
    THEN [Globals EXCEPT !.in_est = None]
    ELSE IF key \in DigitKeys
    THEN LET r == apply_est_action(in_est, IdxOf(key))
         IN  [Globals EXCEPT !.player = r.player,
                             !.player_file = r.file,
                             !.toasts = IF Truthy(r.toast)
                                        THEN add_toast(toasts, r.toast)
                                        ELSE toasts]
    ELSE Globals

\* KEYDOWN, else
OnKeyDownExploring(key) ==
    IF key = "K_ESCAPE"
    THEN [Globals EXCEPT !.player_file = save_player(player),
                         !.running = FALSE]
    ELSE IF key = "K_w"
    THEN LET r == step_forward
         IN  [Globals EXCEPT !.move_forward = TRUE,
                             !.move_timer = 0,
                             !.px = r.px,
                             !.py = r.py,
                             !.in_est = IF Truthy(r.ret) THEN r.ret ELSE in_est,
                             !.raised = r.raised,
                             !.stepped = "forward"]
    ELSE IF key = "K_s"
    THEN LET r == step_backward
         IN  [Globals EXCEPT !.move_backward = TRUE,
                             !.move_timer = 0,
                             !.px = r.px,
                             !.py = r.py,
                             !.raised = r.raised,
                             !.stepped = "backward"]
    ELSE IF key = "K_a"
    THEN [Globals EXCEPT !.p_angle = p_angle - 1]
    ELSE IF key = "K_d"
    THEN [Globals EXCEPT !.p_angle = p_angle + 1]
    ELSE Globals

\* elif ev.type == pygame.KEYDOWN
OnKeyDown(key) ==
    IF Truthy(in_est) THEN OnKeyDownInterior(key) ELSE OnKeyDownExploring(key)

\* mutant: releasing a movement key leaves the cooldown timer as it is
OnKeyUp_keeps_timer(key) ==
    IF key = "K_w"
    THEN [Globals EXCEPT !.move_forward = FALSE]
    ELSE IF key = "K_s"
    THEN [Globals EXCEPT !.move_backward = FALSE]
    ELSE Globals

\* elif ev.type == pygame.KEYUP
OnKeyUp(key) ==
    IF key = "K_w"
    THEN [Globals EXCEPT !.move_forward = FALSE, !.move_timer = 0]
    ELSE IF key = "K_s"
    THEN [Globals EXCEPT !.move_backward = FALSE, !.move_timer = 0]
    ELSE Globals

\* if ev.type == pygame.QUIT
OnQuit == [Globals EXCEPT !.player_file = save_player(player), !.running = FALSE]

\* "Continuous movement - only active while key held"
HeldMovement(dt) ==
    IF move_forward \/ move_backward
    THEN IF move_timer + dt >= move_cooldown
         THEN IF move_forward
              THEN LET r == step_forward
                   IN  [Globals EXCEPT !.move_timer = 0,
                                       !.px = r.px,
                                       !.py = r.py,
                                       !.in_est = IF Truthy(r.ret) THEN r.ret ELSE in_est,
                                       !.raised = r.raised,
                                       !.stepped = "forward"]
              ELSE LET r == step_backward
                   IN  [Globals EXCEPT !.move_timer = 0, !.px = r.px, !.py = r.py,
                                       !.raised = r.raised,
                                       !.stepped = "backward"]
         ELSE [Globals EXCEPT !.move_timer = move_timer + dt]
    ELSE [Globals EXCEPT !.move_timer = 0]

\* draw_toasts(): the toasts older than their duration leave the queue; they
\* age by the wall clock, so any number of the oldest may have expired
draw_toasts(q, expired) == SubSeq(q, expired + 1, Len(q))

\* the rows that are shorter than the first
ShortRows(wm) == {y \in 1..Len(wm) : Len(wm[y]) < MAP_W_of(wm)}

\* The render of a frame raises: while exploring it casts the rays.  A pass
\* of a ray raises only in a row shorter than MAP_W, so on a map without
\* such a row no ray is followed
RenderRaises(g) ==
    /\ ~Truthy(g.in_est)
    /\ ShortRows(world_map) # {}
    /\ Raised(cast_rays(world_map, g.px, g.py, g.p_angle))

\* The rest of a frame after its events: held movement, rendering, and when
\* the loop's flag is down the final save_player and pygame.quit().  An
\* exception in the step or in the render ends the frame where it is raised
EndOfFrame(dt, expired) ==
    LET g == HeldMovement(dt)
    IN  IF g.raised \/ RenderRaises(g)
        THEN [g EXCEPT !.raised = TRUE]
        ELSE [g EXCEPT !.toasts = draw_toasts(g.toasts, expired),
                       !.player_file = IF running THEN g.player_file
                                       ELSE save_player(g.player)]

\* where the loop is after a step that left the globals g: an uncaught
\* exception ends the program without the final save
AfterStep(g, next) == IF g.raised THEN "crashed" ELSE next

\* an event of the loop, with the pose and mode its handler starts from
Event(type, key, dt) ==
    [type |-> type, key |-> key, dt |-> dt, px |-> px, py |-> py, in_est |-> in_est,
     step |-> "none", since |-> 0, quiet |-> 0]

Min(a, b) == IF a <= b THEN a ELSE b

\* The event e as observed once its handler has left the globals g: which
\* step function it called; the frame time that has gone by with a movement
\* key held since a step function was last called (since); and the same
\* since a step function was last called or a movement key was last
\* released (quiet).  Both are counted up to the cooldown
Observed(e, g) ==
    LET held == g.move_forward \/ g.move_backward
    IN  [e EXCEPT !.step  = g.stepped,
                  !.since = IF g.stepped # "none" \/ ~held THEN 0
                            ELSE Min(ev.since + e.dt, move_cooldown),
                  !.quiet = IF g.stepped # "none" \/ ~held \/ e.type = "KEYUP" THEN 0
                            ELSE Min(ev.quiet + e.dt, move_cooldown)]

\* The keyboard sends KEYDOWN once when a key goes down (key repeat is off)
\* and KEYUP when it comes up
KeyDown(key) ==
    /\ pc = "loop"
    /\ key \notin pressed
    /\ pressed' = IF key \in MoveKeys THEN pressed \cup {key} ELSE pressed
    /\ LET g == OnKeyDown(key)
       IN  /\ WithinBounds(g) /\ Becomes(g) /\ pc' = AfterStep(g, pc)
           /\ ev' = Observed(Event("KEYDOWN", key, 0), g)
    /\ UNCHANGED <<mapVars, drawVars>>

KeyUp(key) ==
    /\ pc = "loop"
    /\ key \in pressed
    /\ pressed' = pressed \ {key}
    /\ Becomes(OnKeyUp(key))
    /\ ev' = Observed(Event("KEYUP", key, 0), OnKeyUp(key))
    /\ UNCHANGED <<mapVars, drawVars, pc>>

Quit ==
    /\ pc = "loop"
    /\ UNCHANGED pressed
    /\ Becomes(OnQuit)
    /\ ev' = Observed(Event("QUIT", "", 0), OnQuit)
    /\ UNCHANGED <<mapVars, drawVars, pc>>

Tick(dt, expired) ==
    /\ pc = "loop"
    /\ UNCHANGED pressed
    /\ expired <= Len(toasts)
    /\ LET g == EndOfFrame(dt, expired)
       IN  /\ Becomes(g) /\ pc' = AfterStep(g, IF running THEN "loop" ELSE "done")
           /\ ev' = Observed(Event("TICK", "", dt), g)
    /\ UNCHANGED <<mapVars, drawVars>>

\* the player files the program may find at startup
Stats(h, s, c, g) ==
    [k \in KeySet |-> CASE k = "health"   -> h
                        [] k = "stamina"  -> s
                        [] k = "charisma" -> c
                        [] k = "gold"     -> g]

InitLoop ==
    /\ p_angle = -1
    /\ in_est = None
    /\ est_menu_index = 0
    /\ toasts = <<>>
    /\ move_forward = FALSE
    /\ move_backward = FALSE
    /\ move_timer = 0
    /\ running = TRUE
    /\ pc = "loop"
    /\ pressed = {}
    /\ labels = <<>>

\* the state after the module-level setup, for a map text, a registry and a
\* player file
Startup(text, registry, file) ==
    /\ world_map = ClearMarker(LoadMap(text))
    /\ px = StartOf(LoadMap(text))[1]
    /\ py = StartOf(LoadMap(text))[2]
    /\ est_defs = registry
    /\ player_file = file
    /\ player = load_player(file)
    /\ InitLoop
    /\ ev = Event("INIT", "", 0)

\* Exploring: every start on the two maps, a player who cannot pay
Init ==
    \E text \in MapTexts :
        /\ Startup(text, ScenarioRegistry, save_player(Stats(100, 100, 10, 0)))
        /\ rays = <<>>

Next ==
    \/ \E key \in Keys : KeyDown(key)
    \/ \E key \in MoveKeys : KeyUp(key)
    \/ Quit
    \/ \E dt \in DtSet, expired \in 0..MaxToasts : Tick(dt, expired)

Spec == Init /\ [][Next]_vars

TypeOK ==
    /\ pc \in {"loop", "done", "crashed"}
    /\ running \in BOOLEAN
    /\ px % 2 = 1
    /\ py % 2 = 1
    /\ \A k \in KeySet : player[k] \in Int

\* Establishments: the player starts between a shop and a tavern with the full menu, with
\* no file, an unreadable file or the file of a player without gold
EstMap == <<"s@t">>

EstFiles == {Absent, Corrupt, save_player(Stats(100, 100, 10, 0))}

InitEst ==
    /\ \E file \in EstFiles : Startup(EstMap, FullRegistry, file)
    /\ rays = <<>>

SpecEst == InitEst /\ [][Next]_vars

(***************************************************************************)
(* modify_stat on its own: any record, any key, the deltas the actions use   *)
(* and the one of the documented example.                                   *)
(***************************************************************************)
StatInputs == {DEFAULT_STATS} \cup {Stats(h, s, c, g) : h, s, c, g \in {0, 50}}

Deltas == {-999, -5, -2, -1, 1, 2, 5}

InitStat ==
    /\ \E p \in StatInputs :
          /\ world_map = ClearMarker(LoadMap(EstMap))
          /\ px = StartOf(LoadMap(EstMap))[1]
          /\ py = StartOf(LoadMap(EstMap))[2]
          /\ est_defs = FullRegistry
          /\ player_file = save_player(p)
          /\ player = load_player(player_file)
    /\ InitLoop
    /\ ev = [type |-> "INIT", key |-> "", delta |-> 0, old |-> 0, n |-> 0]
    /\ rays = <<>>

ModifyStat(key, delta) ==
    /\ ev.n < MaxMods
    /\ player' = modify_stat(player, key, delta)
    /\ ev' = [type |-> "MODIFY", key |-> key, delta |-> delta,
              old |-> player[key], n |-> ev.n + 1]
    /\ UNCHANGED <<mapVars, player_file, poseVars, in_est, est_menu_index, toasts, moveVars,
                   running, pc, pressed, drawVars>>

NextStat == \E key \in KeySet, delta \in Deltas : ModifyStat(key, delta)

SpecStat == InitStat /\ [][NextStat]_vars

(***************************************************************************)
(* draw_walls on its own: the label blits of one frame, for any ray fan.    *)
(***************************************************************************)
\* nearest_hits after the first n rays: a dict keyed by the hit character as
\* stored, in insertion order; rays count from 0
RECURSIVE NearestHits(_, _)
NearestHits(fan, n) ==
    IF n = 0 THEN <<>>
    ELSE LET hits == NearestHits(fan, n - 1)
             rd   == fan[n]
             at   == {k \in 1..Len(hits) : hits[k].ch = rd.ch}
         IN  IF rd.ch # "." /\ HasKey(est_defs, lower(rd.ch))
             THEN IF at = {}
                  THEN Append(hits, [ch |-> rd.ch, ray_index |-> n - 1,
                                     depth |-> rd.depth])
                  ELSE LET k == CHOOSE j \in at : TRUE
                       IN  IF rd.depth < hits[k].depth
                           THEN [hits EXCEPT ![k] = [ch |-> rd.ch,
                                                     ray_index |-> n - 1,
                                                     depth |-> rd.depth]]
                           ELSE hits
             ELSE hits

\* the label blits of the inner loop over nearest_hits.items()
LabelsOf(hits) ==
    [k \in 1..Len(hits) |->
        [ch |-> hits[k].ch, ray |-> hits[k].ray_index,
         name |-> EstOf(est_defs, lower(hits[k].ch)).name]]

\* the label blits of draw_walls: the loop over nearest_hits sits inside the
\* loop that draws the wall columns, so it runs once for every ray
RECURSIVE LabelBlits(_, _)
LabelBlits(hits, n) ==
    IF n = 0 THEN <<>> ELSE LabelBlits(hits, n - 1) \o LabelsOf(hits)

draw_walls(fan) == LabelBlits(NearestHits(fan, Len(fan)), Len(fan))

HitChars == {"#", ".", "t", "T", "s", "x"}

Fans == [1..FanSize -> [ch : HitChars, depth : 1..MaxDepth]]

InitDraw ==
    /\ Startup(EstMap, ScenarioRegistry, Absent)
    /\ rays \in Fans

DrawWalls ==
    /\ ev.type = "INIT"
    /\ labels' = draw_walls(rays)
    /\ ev' = Event("DRAW", "", 0)
    /\ UNCHANGED <<mapVars, statVars, poseVars, in_est, est_menu_index, toasts, moveVars,
                   running, pc, pressed, rays>>

NextDraw == DrawWalls

SpecDraw == InitDraw /\ [][NextDraw]_vars

(***************************************************************************)
(* cast_rays on its own: the fan of one frame, from any open cell of a map  *)
(* and any heading.                                                         *)
(***************************************************************************)
\* a corridor longer than MAX_DEPTH that ends at a tavern
LongRow == <<"..........................................t">>

\* a map whose second row is shorter than its first
RaggedMap == <<"....",
               ".@",
               "...">>

RayTexts == {LongRow, MapA, MapB, RaggedMap}

\* the '.' cells of a loaded map, as <<x, y>>
OpenCellsOf(wm) ==
    {c \in (0..(MAP_W_of(wm) - 1)) \X (0..(MAP_H_of(wm) - 1)) :
        c[1] < Len(wm[c[2] + 1]) /\ Cell(wm, c[1], c[2]) = "."}

InitRay ==
    /\ \E text \in RayTexts :
          /\ world_map = ClearMarker(LoadMap(text))
          /\ \E c \in OpenCellsOf(ClearMarker(LoadMap(text))) :
                /\ px = 2 * c[1] + 1
                /\ py = 2 * c[2] + 1
    /\ p_angle \in (0 - MaxTurns)..MaxTurns
    /\ est_defs = ScenarioRegistry
    /\ player_file = Absent
    /\ player = load_player(Absent)
    /\ in_est = None
    /\ est_menu_index = 0
    /\ toasts = <<>>
    /\ move_forward = FALSE
    /\ move_backward = FALSE
    /\ move_timer = 0
    /\ running = TRUE
    /\ pc = "loop"
    /\ pressed = {}
    /\ labels = <<>>
    /\ rays = <<>>
    /\ ev = Event("INIT", "", 0)

CastRays ==
    /\ ev.type = "INIT"
    /\ rays' = cast_rays(world_map, px, py, p_angle)
    /\ ev' = Event("CAST", "", 0)
    /\ UNCHANGED <<mapVars, statVars, poseVars, in_est, est_menu_index, toasts,
                   moveVars, running, pc, pressed, labels>>

NextRay == CastRays

SpecRay == InitRay /\ [][NextRay]_vars

\* The program on the map with the short row
InitRagged ==
    /\ Startup(RaggedMap, ScenarioRegistry, Absent)
    /\ rays = <<>>

SpecRagged == InitRagged /\ [][Next]_vars

\* A registry whose menus hold entries the interior screen leaves out: one
\* before the actions of the tavern, one after the action of the shop
MenuRegistry ==
    << [key |-> "t", type |-> "tavern", name |-> "The Rusty Mug",
        menu |-> <<"Leave (Esc)", "Drink Ale", "Sing a Song">>],
       [key |-> "s", type |-> "shop", name |-> "General Store",
        menu |-> <<"Browse Wares", "Exit">>] >>

\* The program between the shop and the tavern of that registry
InitMenu ==
    /\ Startup(EstMap, MenuRegistry, Absent)
    /\ rays = <<>>

SpecMenu == InitMenu /\ [][Next]_vars

(***************************************************************************)
(* Movement claims.                                                         *)
(***************************************************************************)
InMap(c) == 0 <= c[1] /\ c[1] < MAP_W /\ 0 <= c[2] /\ c[2] < MAP_H

\* the tile of cell c, "outside" beyond the map, "past" beyond the end of a
\* row shorter than the first
TileAt(c) ==
    IF ~InMap(c) THEN "outside"
    ELSE IF c[1] >= Len(world_map[c[2] + 1]) THEN "past"
    ELSE Cell(world_map, c[1], c[2])

\* the cell holding the point (x, y) given in half tiles
CellOf(x, y) == <<(x - 1) \div 2, (y - 1) \div 2>>

\* the cell one tile along, and one tile against, the heading
Ahead  == <<CellOf(px, py)[1] + Cos(p_angle), CellOf(px, py)[2] + Sin(p_angle)>>
Behind == <<CellOf(px, py)[1] - Cos(p_angle), CellOf(px, py)[2] - Sin(p_angle)>>

\* the registry entries for a tile letter, whatever its case
EntriesFor(ch) == {i \in 1..Len(est_defs) : lower(est_defs[i].key) = lower(ch)}
IsEstTile(ch) == EntriesFor(ch) # {}
TypeFor(ch) == est_defs[CHOOSE i \in EntriesFor(ch) : TRUE].type

\* this step attempts a forward step: a press of the forward key while
\* exploring, or a held-key repeat
ForwardStep ==
    /\ pc = "loop"
    /\ \/ ev'.type = "KEYDOWN" /\ ev'.key = "K_w" /\ ~Truthy(in_est)
       \/ ev'.type = "TICK" /\ move_forward /\ move_timer + ev'.dt >= move_cooldown

\* this step attempts a backward step
BackwardStep ==
    /\ pc = "loop"
    /\ \/ ev'.type = "KEYDOWN" /\ ev'.key = "K_s" /\ ~Truthy(in_est)
       \/ /\ ev'.type = "TICK"
          /\ move_backward /\ ~move_forward
          /\ move_timer + ev'.dt >= move_cooldown

\* the sample of the ray that runs along the heading
Centre == rays[CHOOSE i \in 1..Len(RayIdx) : RayIdx[i] = NUM_RAYS \div 2]

\* the cell j tiles along the heading
AheadBy(j) == <<CellOf(px, py)[1] + j * Cos(p_angle), CellOf(px, py)[2] + j * Sin(p_angle)>>

\* the ray along the heading meets only empty cells up to the maximum depth
ClearAhead == \A j \in 1..MAX_DEPTH : TileAt(AheadBy(j)) = "."

\* the ray along the heading leaves the map after empty cells only, and far
\* enough within its depth for the bounds test to see it: at once through
\* the right or bottom edge, one tile beyond the left or top edge, where
\* int() still truncates the coordinate to 0
LeavesMap ==
    \E j \in 1..MAX_DEPTH :
        /\ TileAt(AheadBy(j)) = "outside"
        /\ \A i \in 1..(j - 1) : TileAt(AheadBy(i)) = "."
        /\ (Cos(p_angle) + Sin(p_angle) < 0) => j + 1 <= MAX_DEPTH

\* C1: a forward step whose candidate cell is '.' moves the player by exactly
\* one tile along the heading, to that cell's centre, and keeps the heading;
\* a forward step whose candidate is a solid wall, an establishment tile or
\* outside the map leaves the position unchanged.
C1_ForwardStep ==
    [][ForwardStep =>
        /\ TileAt(Ahead) = "." =>
              /\ px' = px + 2 * Cos(p_angle)
              /\ py' = py + 2 * Sin(p_angle)
              /\ CellOf(px', py') = Ahead
              /\ p_angle' = p_angle
        /\ (TileAt(Ahead) \in {"#", "outside"} \/ IsEstTile(TileAt(Ahead))) =>
              /\ px' = px
              /\ py' = py]_vars

\* a forward key press has moved the player one tile, and another has been
\* stopped at the edge of the map
C1_Witness ==
    /\ ev.type = "KEYDOWN" /\ ev.key = "K_w" /\ ev.in_est = None
    /\ <<ev.px, ev.py>> # <<px, py>>
    /\ TileAt(Ahead) = "outside"

\* C2: a forward step (key press or held-key repeat) whose candidate cell is
\* an establishment tile puts the mode in InInterior with the type the
\* registry records for the tile's letter, whatever its case, and does not
\* move the player.
C2_EnterEstablishment ==
    [][(ForwardStep /\ IsEstTile(TileAt(Ahead))) =>
        /\ in_est' = TypeFor(TileAt(Ahead))
        /\ Truthy(in_est')
        /\ px' = px
        /\ py' = py]_vars

\* a held-key repeat has taken the player from exploring into the tavern
\* through a tile stored in upper case
C2_Witness ==
    /\ ev.type = "TICK" /\ ev.in_est = None
    /\ in_est = "tavern"
    /\ TileAt(Ahead) = "T"
    /\ <<ev.px, ev.py>> = <<px, py>>

\* C3: the position is always the centre of a cell inside the map that is
\* not a solid wall.
C3_PositionValid ==
    /\ px % 2 = 1
    /\ py % 2 = 1
    /\ InMap(CellOf(px, py))
    /\ TileAt(CellOf(px, py)) # "#"

\* a backward step has been committed and has brought the player up against
\* a solid wall
C3_Witness ==
    /\ ev.type = "KEYDOWN" /\ ev.key = "K_s"
    /\ <<ev.px, ev.py>> # <<px, py>>
    /\ TileAt(Behind) = "#"

\* C4: a backward step whose candidate cell is an establishment
\* tile does not move the player and puts the mode in InInterior with that
\* establishment's type.
C4_BackwardEnters ==
    [][(BackwardStep /\ IsEstTile(TileAt(Behind))) =>
        /\ px' = px
        /\ py' = py
        /\ in_est' = TypeFor(TileAt(Behind))]_vars

\* the ray along the heading reaches, after empty cells only, a cell past
\* the end of a short row
ReachesPast ==
    \E j \in 1..MAX_DEPTH :
        /\ TileAt(AheadBy(j)) = "past"
        /\ \A i \in 1..(j - 1) : TileAt(AheadBy(i)) = "."

\* the sample the frame's render records for the ray along the heading
CentreOf(fan) == fan[CHOOSE i \in 1..Len(RayIdx) : RayIdx[i] = NUM_RAYS \div 2]

\* C12: the cells past the end of a row shorter than the map width are
\* outside the map and solid: a forward or backward step whose candidate
\* cell lies there is a no-op that raises no error, and a ray reaching such a
\* cell records a generic wall hit.
C12_ShortRowIsSolid ==
    [][/\ (ForwardStep /\ TileAt(Ahead) = "past") =>
            px' = px /\ py' = py /\ pc' # "crashed"
       /\ (BackwardStep /\ TileAt(Behind) = "past") =>
            px' = px /\ py' = py /\ pc' # "crashed"
       /\ (pc = "loop" /\ ev'.type = "TICK" /\ ~Truthy(in_est') /\ ReachesPast') =>
            /\ pc' # "crashed"
            /\ CentreOf(cast_rays(world_map, px', py', p_angle')).ch = "#"]_vars

\* the step a tick attempts with the keys held as they are
HeldStep == IF move_forward THEN "forward" ELSE "backward"

\* the step a press of a movement key attempts
PressStep(key) == IF key = "K_w" THEN "forward" ELSE "backward"

C15_StillInInterior ==
    [][Truthy(in_est) => (px' = px /\ py' = py /\ p_angle' = p_angle)]_vars

(***************************************************************************)
(* Establishment claims.                                                    *)
(***************************************************************************)
\* this step handles a press of a numeric key in an interior
Selects(key) ==
    /\ pc = "loop"
    /\ Truthy(in_est)
    /\ ev'.type = "KEYDOWN" /\ ev'.key = key

\* menu entry 0 of the establishment type is a drink action
DrinkFirst(est_type) ==
    /\ Len(MenuOf(est_defs, est_type)) > 0
    /\ Contains(lower(MenuOf(est_defs, est_type)[1]), "drink")

\* C7: in a tavern whose menu entry 0 is a drink action, selecting index 0
\* with gold >= 1 takes exactly 1 gold, adds exactly 5 stamina, changes no
\* other stat and emits a non-empty message; with gold = 0 it emits a message
\* and leaves every stat unchanged.
C7_DrinkAction ==
    [][(Selects("K_1") /\ in_est = "tavern" /\ DrinkFirst("tavern")) =>
        /\ Len(toasts') = Len(toasts) + 1
        /\ toasts'[Len(toasts')] \notin {"", None}
        /\ player["gold"] >= 1 =>
              player' = [player EXCEPT !["gold"] = @ - 1, !["stamina"] = @ + 5]
        /\ player["gold"] = 0 => player' = player]_vars

\* a drink has been bought in the tavern
C7_Witness ==
    /\ ev.type = "KEYDOWN" /\ ev.key = "K_1" /\ ev.in_est = "tavern"
    /\ player["gold"] = DEFAULT_STATS["gold"] - 1
    /\ player["stamina"] = DEFAULT_STATS["stamina"] + 5
    /\ toasts = <<"You drink and feel refreshed.">>

\* C8: in an interior a numeric selection whose index is not below the
\* length of the establishment's menu is ignored: no message is queued, no
\* stat changes, nothing is saved and the mode stays InInterior.
C8_OutOfRangeIgnored ==
    [][\A key \in DigitKeys :
        (Selects(key) /\ IdxOf(key) >= Len(MenuOf(est_defs, in_est))) =>
            /\ toasts' = toasts
            /\ player' = player
            /\ player_file' = player_file
            /\ in_est' = in_est]_vars

\* key 3 has been pressed in the shop, whose menu has two entries, by a
\* player whose stats an earlier action had changed
C8_Witness ==
    /\ ev.type = "KEYDOWN" /\ ev.key = "K_3" /\ ev.in_est = "shop"
    /\ Len(MenuOf(est_defs, "shop")) = 2
    /\ in_est = "shop"
    /\ player # DEFAULT_STATS

\* C9: the record in the player-stats file, loaded back, is the in-memory
\* record: after every action that changes a stat, and at quit.
C9_FileMatchesMemory == load_player(player_file) = player

\* the program has quit after an action changed a stat, and the file holds
\* the changed record
C9_Witness ==
    /\ pc = "done"
    /\ player["charisma"] = DEFAULT_STATS["charisma"] + 1
    /\ player_file.exists
    /\ player_file = save_player(player)

\* C10: in an interior the cancel key sets the mode to Exploring and does not
\* end the program; nothing else takes the mode from InInterior to Exploring;
\* the cancel key while exploring ends the program.
C10_CancelKey ==
    [][/\ (pc = "loop" /\ ev'.type = "KEYDOWN" /\ ev'.key = "K_ESCAPE") =>
            IF Truthy(in_est)
            THEN in_est' = None /\ running' = running /\ pc' = "loop"
            ELSE in_est' = None /\ running' = FALSE
       /\ (Truthy(in_est) /\ in_est' = None) =>
            ev'.type = "KEYDOWN" /\ ev'.key = "K_ESCAPE"
       /\ (pc = "loop" /\ ~running /\ ev'.type = "TICK") => pc' = "done"]_vars

\* the cancel key has taken the player out of an interior and the program is
\* still running
C10_Witness ==
    /\ ev.type = "KEYDOWN" /\ ev.key = "K_ESCAPE"
    /\ ev.in_est = "shop"
    /\ in_est = None
    /\ running
    /\ pc = "loop"

\* C11: in an interior a numeric key k (1 to 4) within the length of the
\* establishment's menu sets the selected menu index, the index the interior
\* renderer is handed as the highlighted item, to k-1, and invokes action
\* resolution for that index.
C11_SelectsIndex ==
    [][\A key \in DigitKeys :
        (Selects(key) /\ IdxOf(key) < Len(MenuOf(est_defs, in_est))) =>
            /\ est_menu_index' = IdxOf(key)
            /\ draw_interior(in_est', est_menu_index').highlight = IdxOf(key) + 1
            /\ player' = apply_est_action(in_est, IdxOf(key)).player
            /\ player_file' = apply_est_action(in_est, IdxOf(key)).file
            /\ Truthy(apply_est_action(in_est, IdxOf(key)).toast) =>
                  toasts' = add_toast(toasts, apply_est_action(in_est, IdxOf(key)).toast)]_vars

\* the registry entries the interior screen numbers: none when the menu is
\* empty and the screen shows its placeholder line
DisplayedEntries(est_type) ==
    IF Len(MenuOf(est_defs, est_type)) = 0 THEN <<>>
    ELSE draw_interior(est_type, est_menu_index).items

\* what a press of a numeric key does when it applies the entry displayed
\* under that number, or nothing when no entry is displayed under it
DisplayedAction(key) ==
    IF IdxOf(key) < Len(DisplayedEntries(in_est))
    THEN ActionOf(DisplayedEntries(in_est)[IdxOf(key) + 1])
    ELSE Unchanged(None)

\* C16: in an interior, for every registry menu, pressing numeric key k
\* applies the action of the menu entry the interior screen displays as item
\* k: the displayed list (without the entries containing 'exit' or 'esc') and
\* the list indexed by action resolution agree on the entry of each number.
C16_NumbersAgree ==
    [][\A key \in DigitKeys :
        Selects(key) =>
            /\ player' = DisplayedAction(key).player
            /\ player_file' = DisplayedAction(key).file
            /\ toasts' = IF Truthy(DisplayedAction(key).toast)
                         THEN add_toast(toasts, DisplayedAction(key).toast)
                         ELSE toasts]_vars

(***************************************************************************)
(* Stats and labels.                                                        *)
(***************************************************************************)
\* C6: every stat is a non-negative integer after any modifications, and a
\* modification that would take a stat below zero leaves it at 0 (a stat at
\* 50 modified by -999 becomes 0).
C6_StatsNeverNegative ==
    /\ \A k \in KeySet : player[k] \in Nat
    /\ (ev.type = "MODIFY" /\ ev.old + ev.delta < 0) => player[ev.key] = 0
    /\ (ev.type = "MODIFY" /\ ev.old + ev.delta >= 0) =>
          player[ev.key] = ev.old + ev.delta

\* a stat at 50 has been modified by -999 and is 0
C6_Witness ==
    /\ ev.type = "MODIFY"
    /\ ev.old = 50
    /\ ev.delta = -999
    /\ player[ev.key] = 0

\* the rays of the fan that hit the establishment of registry entry e
HitsOn(e) == {i \in 1..Len(rays) : lower(rays[i].ch) = lower(est_defs[e].key)}

\* the label blits for the establishment of registry entry e
LabelsFor(e) == {j \in 1..Len(labels) : lower(labels[j].ch) = lower(est_defs[e].key)}

\* C5: one frame of wall drawing renders exactly one label for each
\* establishment the rays hit, whatever the case its tiles are stored in, and
\* none for the others; the label is anchored to a ray of minimum depth among
\* the rays hitting that establishment.
C5_OneLabelPerEstablishment ==
    ev.type = "DRAW" =>
        \A e \in 1..Len(est_defs) :
            IF HitsOn(e) = {}
            THEN LabelsFor(e) = {}
            ELSE /\ Cardinality(LabelsFor(e)) = 1
                 /\ \A j \in LabelsFor(e) :
                       /\ labels[j].ray + 1 \in HitsOn(e)
                       /\ \A i \in HitsOn(e) :
                             rays[labels[j].ray + 1].depth <= rays[i].depth

====
